---- MODULE Spec2Model ----
(***************************************************************************)
(* Refresh-token rotation and reuse detection of the VlogSphere backend:   *)
(* register / login (beginSession), POST /auth/refresh (rotate),           *)
(* POST /auth/logout (endSession) and account deletion, as request         *)
(* handlers that interleave at their awaits on the User collection.        *)
(***************************************************************************)
EXTENDS Integers, Sequences, FiniteSets, Bags, TLC

(* ------------------------------ bounds --------------------------------- *)
\* requests received in a run (each register, login, refresh, logout, delete)
MaxRequests == 5
\* the clock runs 0..MaxTime (one unit = many jwt "iat" seconds)
MaxTime == 2
\* JWT_REFRESH_EXPIRE in clock units
RefreshExpire == 2
\* vlog requests received in a run (views, fetches, updates, deletions)
MaxViewRequests == 4
\* expiries of one dedup key in a run
MaxExpiries == 1

\* runs of the mount effect of AuthProvider in one page load
MaxEffectRuns == 4

\* forgotPassword and resetPassword requests in a run
MaxResetRequests == 4

\* passwordResetExpires: Date.now() + 15 minutes, in ticks of the clock
ResetExpire == 2

Principals == {"A", "B"}

\* A race between handlers takes two of them: at most this many are suspended
\* between their read and their save at one time
Suspended == {"first", "second"}

(* ------------------------------ values --------------------------------- *)
\* revokedAt: null
Null == -1
\* tokenFamily: '' (schema default, and the value revokeAllSessions stores)
NoFamily == 0
\* refreshTokenHash: ''
NoHash == <<>>

\* User schema defaults of the four session fields
DefaultSession ==
    [tokenFamily |-> NoFamily, tokenVersion |-> 0,
     refreshTokenHash |-> NoHash, revokedAt |-> Null]

\* a principal that has not registered yet
NoUser == [status |-> "none", session |-> DefaultSession]

\* req.body.refreshToken absent
NoToken == [kind |-> "none", id |-> "-", tokenFamily |-> NoFamily, tokenVersion |-> 0, iat |-> 0]
\* a string jwt.verify rejects (malformed, or not signed with JWT_REFRESH_SECRET)
BadToken == [kind |-> "bad", id |-> "-", tokenFamily |-> NoFamily, tokenVersion |-> 0, iat |-> 0]

\* jwt.sign({id, tokenFamily, tokenVersion}, JWT_REFRESH_SECRET, {expiresIn}):
\* the signed string is determined by the payload and the second it is signed in
generateRefreshToken(id, tokenFamily, tokenVersion, t) ==
    [kind |-> "jwt", id |-> id, tokenFamily |-> tokenFamily,
     tokenVersion |-> tokenVersion, iat |-> t]

\* The ObjectId of each principal as <<first 19 hex digits, remaining digits>>.
\* Two accounts created by one server process in the same second share the
\* first part (timestamp, process random, top of the counter).
ObjectId == [p \in Principals |-> IF p = "A" THEN <<7, 1>> ELSE <<7, 2>>]

\* what a hash of the whole string would key on
WholeString(token) == token

\* The first 72 bytes of a signed refresh token: the 36 characters of the
\* base64url header, the dot, and 35 characters of the payload, which encode
\* {"id":" and the first 19 hex digits of the id.  tokenFamily, tokenVersion,
\* iat and exp all lie beyond byte 72.
Trunc72(token) == <<"eyJhbGciOiJIUzI1NiIsInR5cCI6IkpXVCJ9", ObjectId[token.id][1]>>

\* a store that keeps the refresh token itself: no bcrypt prefix, the whole
\* string as content
StorePlaintext(token) == <<"", WholeString(token)>>

\* userSchema.methods.hashRefreshToken: bcrypt.hash(token, genSalt(10)).
\* bcrypt keys its state from the first 72 bytes of the input only.  The
\* random salt is not represented: it makes every computed hash a new string,
\* which is accounted for in Modified below.
hashRefreshToken(token) == <<"$2a$10$", Trunc72(token)>>

\* bcrypt.compare(refreshToken, user.refreshTokenHash): false for '' (not a
\* bcrypt string), else re-hash the presented string with the stored salt
BcryptCompare(token, hash) ==
    /\ hash # NoHash
    /\ hash = hashRefreshToken(token)

\* parseInt(process.env.VIEW_TTL_SECONDS, 10) || 300
VIEW_TTL_SECONDS == 300

(* ------------------------------ state ---------------------------------- *)
VARIABLES
    db,          \* the User collection: status and the four session fields
    reqs,        \* bag of the handlers suspended between their read and save
    issued,      \* every refresh token handed out in a response so far
    rotated,     \* refresh tokens a rotate call has succeeded with
    successors,  \* <<presented, returned>> of every successful rotate
    burned,      \* <<family, nextFamily>> at each TokenReuseDetected response
    nextFamily,  \* crypto.randomBytes(16): the next unused family value
    received,    \* number of requests received so far
    now,         \* the clock
    resp,        \* the response sent last
    vlogs,       \* the Vlog collection: views of each vlog, NoVlog once deleted
    redisData,   \* the keys Redis holds and their values
    redisUp,     \* whether Redis answers
    storeUp,     \* whether MongoDB answers the Vlog operations
    calls,       \* bag of the recordView calls suspended at a store operation
    windows,     \* how many times each dedup key has expired
    answers,     \* what the recordView calls have returned so far
    viewReceived,\* number of vlog requests received so far
    viewResp,    \* the vlog response sent last
    sent,        \* the POST /auth/refresh request a browser sent last
    page,        \* one page load of the frontend: the module-level flags of
                 \* AuthContext.jsx and the state of its AuthProvider instances
    recovery     \* password recovery: the password and reset fields of the
                 \* account, the suspended handlers, the tokens mailed

\* the session state of the auth handlers
authVars == <<db, reqs, issued, rotated, successors, burned, nextFamily, received, now, resp>>

\* the state of the vlog handlers
viewVars == <<vlogs, redisData, redisUp, storeUp, calls, windows, answers, viewReceived, viewResp>>

\* what the clients did
clientVars == <<sent>>

\* the frontend
pageVars == <<page>>

\* forgotPassword and resetPassword
resetVars == <<recovery>>

vars == <<authVars, viewVars, clientVars, pageVars, resetVars>>

NoResponse ==
    [op |-> "none", user |-> "-", token |-> NoToken, result |-> "none",
     step |-> "none", issued |-> NoToken, snap |-> DefaultSession,
     changed |-> {}, late |-> FALSE, burnt |-> "no", again |-> FALSE]

\* the ids of the vlogs
Contents == {"v1", "v2"}

\* views of a vlog that is not in the collection (findById gives null)
NoVlog == -1

\* no service result: recordView threw
NoResult == [error |-> "TypeError"]

NoViewResponse ==
    [op |-> "none", vlogId |-> "-", viewerId |-> "-", status |-> 0, path |-> "none",
     result |-> NoResult, body |-> NoResult, changedViews |-> {}, changedKeys |-> {},
     cause |-> "none", tries |-> 0]

\* no refresh request sent by a browser yet
NoRequest == [body |-> NoToken, cookie |-> NoToken, n |-> 0]

\* crypto.createHash('sha256').update(resetToken).digest('hex')
Sha256(resetToken) == <<"sha256", resetToken>>

\* pre('save') hashPassword: bcrypt.hash(password, genSalt(12))
HashPassword(password) == <<"$2a$12$", password>>

\* passwordResetToken: '' (schema default)
NoResetToken == <<"">>
\* a path set to undefined and saved: $unset
Unset == <<"undefined">>

\* the passwords the requests carry
Passwords == {"p1", "p2"}

\* the account before any recovery: the password of registration, the
\* schema defaults of the reset fields; no request yet, no token mailed
NoRecovery ==
    [doc |-> [password |-> HashPassword("p0"),
              passwordResetToken |-> NoResetToken,
              passwordResetExpires |-> 0,
              passwordResetUsed |-> FALSE],
     handlers |-> {}, mailed |-> {}, wins |-> {}, received |-> 0, now |-> 0,
     resp |-> [op |-> "none", token |-> 0, status |-> 0, message |-> "none"]]

\* the AuthProvider instances of one page load
Instances == {"i1", "i2"}

\* a page just loaded: let globalAuthInitialized = false, let
\* globalAuthInitializing = false; every AuthProvider starts with
\* useState(true) for loading and useState(false) for isAuthenticated.
\* runs holds the initAuth calls suspended at a request; effects, started,
\* me and refresh count the effect runs, the restoration sequences begun
\* and the requests sent; outcome is how the restoration ended.
NoPage ==
    [globalAuthInitialized |-> FALSE, globalAuthInitializing |-> FALSE,
     provider |-> [i \in Instances |-> [loading |-> TRUE, isAuthenticated |-> FALSE]],
     runs |-> {}, effects |-> 0, started |-> 0, me |-> 0, refresh |-> 0,
     outcome |-> "none"]

\* no vlog published, Redis empty and answering, no vlog request yet
InitViews ==
    /\ vlogs = [v \in Contents |-> NoVlog]
    /\ redisData = << >>
    /\ redisUp = TRUE
    /\ storeUp = TRUE
    /\ calls = EmptyBag
    /\ windows = [k \in Contents \X Principals |-> 0]
    /\ answers = {}
    /\ viewReceived = 0
    /\ viewResp = NoViewResponse

Init ==
    /\ db = [p \in Principals |-> NoUser]
    /\ reqs = EmptyBag
    /\ issued = {}
    /\ rotated = {}
    /\ successors = {}
    /\ burned = {}
    /\ nextFamily = 1
    /\ received = 0
    /\ now = 0
    /\ resp = NoResponse
    /\ InitViews
    /\ sent = NoRequest
    /\ page = NoPage
    /\ recovery = NoRecovery

\* the server takes a new request; the handler h is suspended at its read
Receive(h) ==
    /\ received < MaxRequests
    /\ BagCardinality(reqs) < Cardinality(Suspended)
    /\ received' = received + 1
    /\ reqs' = reqs (+) SetToBag({h})

\* the suspended handler h resumes and runs to its response
Resume(h) ==
    /\ BagIn(h, reqs)
    /\ reqs' = reqs (-) SetToBag({h})

(* ------------------------- mongoose document.save ---------------------- *)
\* a save that sends every session field, modified or not
EveryPath(snap, new) ==
    {"tokenFamily", "tokenVersion", "refreshTokenHash", "revokedAt"}

\* The paths document.save() sends in its $set: those whose assigned value
\* differs from the value the document was loaded with.  A computed bcrypt
\* hash (fresh salt) and Date.now() always differ from the loaded value.
Modified(snap, new) ==
    {f \in {"tokenFamily", "tokenVersion"} : new[f] # snap[f]}
      \cup (IF new.refreshTokenHash # NoHash \/ snap.refreshTokenHash # NoHash
            THEN {"refreshTokenHash"} ELSE {})
      \cup (IF new.revokedAt # Null \/ snap.revokedAt # Null
            THEN {"revokedAt"} ELSE {})

\* the stored session fields after a $set of the paths in m
Merge(cur, new, m) ==
    [tokenFamily |-> IF "tokenFamily" \in m THEN new.tokenFamily ELSE cur.tokenFamily,
     tokenVersion |-> IF "tokenVersion" \in m THEN new.tokenVersion ELSE cur.tokenVersion,
     refreshTokenHash |-> IF "refreshTokenHash" \in m THEN new.refreshTokenHash
                          ELSE cur.refreshTokenHash,
     revokedAt |-> IF "revokedAt" \in m THEN new.revokedAt ELSE cur.revokedAt]

\* an update that addresses every document instead of the one loaded
SaveEvery(d, p, snap, new) ==
    [q \in Principals |->
        [d[q] EXCEPT !.session = Merge(d[q].session, new, Modified(snap, new))]]

\* await user.save(): updateOne({_id: p}, {$set: modified paths}), one
\* atomic write of the modified session fields of p's stored document
Save(d, p, snap, new) ==
    [d EXCEPT ![p].session = Merge(d[p].session, new, Modified(snap, new))]

\* a revocation that clears the token fields but records no revokedAt
ClearTokensOnly(t) ==
    [tokenFamily |-> NoFamily, tokenVersion |-> 0,
     refreshTokenHash |-> NoHash, revokedAt |-> Null]

\* userSchema.methods.revokeAllSessions, called at time t
revokeAllSessions(t) ==
    [tokenFamily |-> NoFamily, tokenVersion |-> 0,
     refreshTokenHash |-> NoHash, revokedAt |-> t]

\* the principals whose stored document differs between two collections
Changed(d, e) == {q \in Principals : d[q] # e[q]}

\* jwt.verify(refreshToken, JWT_REFRESH_SECRET): "bad" for a string that does
\* not verify, "expired" once exp = iat + expiresIn is reached
JwtVerify(token, t) ==
    IF token.kind # "jwt" THEN "bad"
    ELSE IF t >= token.iat + RefreshExpire THEN "expired"
    ELSE "ok"

\* what the history says of a presented token's family when it arrives:
\* "live" if reuse was detected in it and no login or register has completed
\* since, "superseded" if one has, "no" if reuse was never detected in it
Burnt(token) ==
    IF \E b \in burned : b[1] = token.tokenFamily /\ b[2] = nextFamily THEN "live"
    ELSE IF \E b \in burned : b[1] = token.tokenFamily THEN "superseded"
    ELSE "no"

(* ----------------------- register / login (beginSession) --------------- *)
\* a suspended handler: the operation, the principal, the presented token,
\* the document as loaded, and what was known of the token when it arrived
Handler(op, p, token, snap) ==
    [op |-> op, user |-> p, token |-> token, snap |-> snap,
     late |-> token \in rotated, burnt |-> Burnt(token)]

\* register up to User.create: the account does not exist yet (else 400);
\* the new document holds the schema defaults.  The principals are
\* interchangeable, so the first account registered is called "A".
RegisterCreate(p) ==
    /\ db[p].status = "none"
    /\ p = "B" => db["A"].status # "none"
    /\ db' = [db EXCEPT ![p] = [status |-> "active", session |-> DefaultSession]]
    /\ Receive(Handler("register", p, NoToken, DefaultSession))
    /\ UNCHANGED <<issued, rotated, successors, burned, nextFamily, now, resp>>
    /\ UNCHANGED <<viewVars, clientVars, pageVars, resetVars>>

\* login up to comparePassword: User.findOne({email}) finds the account and
\* the password matches (else 401); the handler holds the loaded document
LoginRead(p) ==
    /\ db[p].status = "active"
    /\ Receive(Handler("login", p, NoToken, db[p].session))
    /\ UNCHANGED <<db, issued, rotated, successors, burned, nextFamily, now, resp>>
    /\ UNCHANGED <<viewVars, clientVars, pageVars, resetVars>>

\* the session fields login and register assign before their save
BeginSessionFields(refreshToken, tokenFamily) ==
    [tokenFamily |-> tokenFamily, tokenVersion |-> 1,
     refreshTokenHash |-> hashRefreshToken(refreshToken), revokedAt |-> Null]

\* the rest of login / register: a fresh tokenFamily, tokenVersion 1, the
\* signed refresh token, its hash, revokedAt = null, save, respond.  A save
\* of a document deleted meanwhile throws and the request ends in a 500.
BeginSessionSave(h) ==
    /\ h.op \in {"login", "register"}
    /\ Resume(h)
    /\ LET p == h.user
           tokenFamily == nextFamily
           refreshToken == generateRefreshToken(p, tokenFamily, 1, now)
           new == BeginSessionFields(refreshToken, tokenFamily)
           saved == db[p].status = "active"
       IN  /\ db' = IF saved THEN Save(db, p, h.snap, new) ELSE db
           /\ issued' = IF saved THEN issued \cup {refreshToken} ELSE issued
           /\ resp' = [op |-> h.op, user |-> p, token |-> NoToken,
                       result |-> IF saved THEN "ok" ELSE "ServerError",
                       step |-> "save",
                       issued |-> IF saved THEN refreshToken ELSE NoToken,
                       snap |-> h.snap, changed |-> Changed(db, db'),
                       late |-> FALSE, burnt |-> "no", again |-> FALSE]
    /\ nextFamily' = nextFamily + 1
    /\ UNCHANGED <<rotated, successors, burned, received, now>>
    /\ UNCHANGED <<viewVars, clientVars, pageVars, resetVars>>

(* ------------------------- POST /auth/refresh (rotate) ----------------- *)
\* what a client or an attacker can put in req.body.refreshToken: nothing,
\* a string that does not verify, or a refresh token once handed out
Presentable == issued \cup {NoToken, BadToken}

\* refreshToken before its first await completes with a document: no token
\* in the body, jwt.verify throws, or User.findById finds nothing
EarlyRejection(token) ==
    IF token.kind = "none" THEN "TokenRequired"
    ELSE IF JwtVerify(token, now) = "bad" THEN "InvalidToken"
    ELSE IF JwtVerify(token, now) = "expired" THEN "TokenExpired"
    ELSE IF db[token.id].status # "active" THEN "UserNotFound"
    ELSE "none"

\* the request ends before a document is loaded: 401, nothing written
EarlyReject(token) ==
    /\ token \in Presentable
    /\ EarlyRejection(token) # "none"
    /\ received < MaxRequests
    /\ received' = received + 1
    /\ resp' = [op |-> "rotate", user |-> token.id, token |-> token,
                result |-> EarlyRejection(token), step |-> "verify",
                issued |-> NoToken,
                snap |-> IF EarlyRejection(token) = "TokenExpired"
                            /\ db[token.id].status = "active"
                         THEN db[token.id].session ELSE DefaultSession,
                changed |-> {}, late |-> token \in rotated,
                burnt |-> Burnt(token), again |-> FALSE]
    /\ UNCHANGED <<db, reqs, issued, rotated, successors, burned, nextFamily, now>>
    /\ UNCHANGED <<viewVars, pageVars, resetVars>>

\* a refresh request with the token in its body that ends early
RotateEarlyReject(token) == EarlyReject(token) /\ UNCHANGED clientVars

\* the user the presented token is checked against: const { id } = decoded
FindById(token) == token.id

\* refreshToken up to User.findById: the token verifies and the handler
\* holds the document of the principal named in the payload
ReadSession(token) ==
    /\ token \in Presentable
    /\ EarlyRejection(token) = "none"
    /\ Receive(Handler("rotate", FindById(token), token, db[FindById(token)].session))
    /\ UNCHANGED <<db, issued, rotated, successors, burned, nextFamily, now, resp>>
    /\ UNCHANGED <<viewVars, pageVars, resetVars>>

\* a refresh request with the token in its body that loads the document
RotateRead(token) == ReadSession(token) /\ UNCHANGED clientVars

\* the checks with any difference of the versions taken for reuse
MismatchIsReuse(user, token) ==
    IF user.revokedAt # Null THEN "revoked"
    ELSE IF user.tokenFamily # token.tokenFamily THEN "family"
    ELSE IF ~BcryptCompare(token, user.refreshTokenHash) THEN "hash"
    ELSE IF user.tokenVersion # token.tokenVersion THEN "reuse"
    ELSE "rotate"

\* the checks with the family compared before revokedAt is looked at
FamilyBeforeRevoked(user, token) ==
    IF user.tokenFamily # token.tokenFamily THEN "family"
    ELSE IF user.revokedAt # Null THEN "revoked"
    ELSE IF ~BcryptCompare(token, user.refreshTokenHash) THEN "hash"
    ELSE IF user.tokenVersion > token.tokenVersion THEN "reuse"
    ELSE IF user.tokenVersion # token.tokenVersion THEN "version"
    ELSE "rotate"

\* the checks with the versions compared before the family and the hash
ReuseBeforeFamily(user, token) ==
    IF user.revokedAt # Null THEN "revoked"
    ELSE IF user.tokenVersion > token.tokenVersion THEN "reuse"
    ELSE IF user.tokenFamily # token.tokenFamily THEN "family"
    ELSE IF ~BcryptCompare(token, user.refreshTokenHash) THEN "hash"
    ELSE IF user.tokenVersion # token.tokenVersion THEN "version"
    ELSE "rotate"

\* the checks without the comparison of the family
WithoutFamilyCheck(user, token) ==
    IF user.revokedAt # Null THEN "revoked"
    ELSE IF ~BcryptCompare(token, user.refreshTokenHash) THEN "hash"
    ELSE IF user.tokenVersion > token.tokenVersion THEN "reuse"
    ELSE IF user.tokenVersion # token.tokenVersion THEN "version"
    ELSE "rotate"

\* the checks of refreshToken on the loaded document, in the order of the
\* code: the step the request ends at
RotateStep(user, token) ==
    IF user.revokedAt # Null THEN "revoked"
    ELSE IF user.tokenFamily # token.tokenFamily THEN "family"
    ELSE IF ~BcryptCompare(token, user.refreshTokenHash) THEN "hash"
    ELSE IF user.tokenVersion > token.tokenVersion THEN "reuse"
    ELSE IF user.tokenVersion # token.tokenVersion THEN "version"
    ELSE "rotate"

\* the message class of a request that ends at a step whose save, if it has
\* one, went through
RotateResult(step) ==
    CASE step = "revoked" -> "SessionRevoked"
      [] step = "reuse"   -> "TokenReuseDetected"
      [] step = "rotate"  -> "ok"
      [] OTHER            -> "InvalidToken"

\* what the client of a rejected refresh receives: every rejection is
\* new ErrorResponse(message, 401), which errorHandler sends as the status
\* and error.message of the JSON body
ClientOutcome(result) ==
    [status |-> 401,
     message |->
        CASE result = "TokenRequired" -> "Refresh token is required"
          [] result = "UserNotFound" -> "User not found"
          [] result = "SessionRevoked" ->
                "Session has been revoked. Please log in again."
          [] result = "TokenReuseDetected" ->
                "Token reuse detected. All sessions have been revoked for security. Please log in again."
          [] result = "TokenExpired" ->
                "Refresh token has expired. Please log in again."
          [] result = "RefreshFailed" -> "Token refresh failed"
          [] OTHER -> "Invalid refresh token"]

\* a handler that saved the document on the revoked path as well
WritesWhenRevoked(step) == step \in {"reuse", "rotate", "revoked"}

\* the steps refreshToken ends at after an await user.save()
Writes(step) == step \in {"reuse", "rotate"}

\* a rotation that keeps the version it read
SameVersion(user) == user.tokenVersion

\* const newTokenVersion = user.tokenVersion + 1
newTokenVersion(user) == user.tokenVersion + 1

\* the rest of refreshToken: the checks, then either no write, or
\* revokeAllSessions + save, or the new version and hash + save.  A save of
\* a document deleted meanwhile throws into the catch: "Token refresh failed".
RotateSave(h) ==
    /\ h.op = "rotate"
    /\ Resume(h)
    /\ LET p == h.user
           user == h.snap
           step == RotateStep(user, h.token)
           newRefreshToken ==
               generateRefreshToken(p, user.tokenFamily, newTokenVersion(user), now)
           new == IF step = "reuse" THEN revokeAllSessions(now)
                  ELSE [user EXCEPT !.refreshTokenHash = hashRefreshToken(newRefreshToken),
                                    !.tokenVersion = newTokenVersion(user)]
           saved == Writes(step) /\ db[p].status = "active"
           result == IF Writes(step) /\ ~saved THEN "RefreshFailed" ELSE RotateResult(step)
       IN  /\ db' = IF saved THEN Save(db, p, user, new) ELSE db
           /\ issued' = IF result = "ok" THEN issued \cup {newRefreshToken} ELSE issued
           /\ rotated' = IF result = "ok" THEN rotated \cup {h.token} ELSE rotated
           /\ successors' = IF result = "ok"
                            THEN successors \cup {<<h.token, newRefreshToken>>}
                            ELSE successors
           /\ burned' = IF result = "TokenReuseDetected"
                        THEN burned \cup {<<h.token.tokenFamily, nextFamily>>}
                        ELSE burned
           /\ resp' = [op |-> "rotate", user |-> p, token |-> h.token,
                       result |-> result, step |-> step,
                       issued |-> IF result = "ok" THEN newRefreshToken ELSE NoToken,
                       snap |-> user, changed |-> Changed(db, db'),
                       late |-> h.late, burnt |-> h.burnt,
                       again |-> h.token \in rotated]
    /\ UNCHANGED <<nextFamily, received, now>>
    /\ UNCHANGED <<viewVars, clientVars, pageVars, resetVars>>

(* ------------------------- POST /auth/logout (endSession) -------------- *)
\* protect passes a request that carries an access token of an existing
\* account: one was returned with every refresh token handed to p
Authenticated(p) == db[p].status = "active" /\ \E t \in issued : t.id = p

\* protect has let the request through and logout has loaded the document
LogoutRead(p) ==
    /\ Authenticated(p)
    /\ Receive(Handler("logout", p, NoToken, db[p].session))
    /\ UNCHANGED <<db, issued, rotated, successors, burned, nextFamily, now, resp>>
    /\ UNCHANGED <<viewVars, clientVars, pageVars, resetVars>>

\* user.revokeAllSessions(); await user.save(); 200
LogoutSave(h) ==
    /\ h.op = "logout"
    /\ Resume(h)
    /\ LET p == h.user
           saved == db[p].status = "active"
       IN  /\ db' = IF saved THEN Save(db, p, h.snap, revokeAllSessions(now)) ELSE db
           /\ resp' = [op |-> "logout", user |-> p, token |-> NoToken,
                       result |-> IF saved THEN "ok" ELSE "ServerError",
                       step |-> "save", issued |-> NoToken,
                       snap |-> h.snap, changed |-> Changed(db, db'),
                       late |-> FALSE, burnt |-> "no", again |-> FALSE]
    /\ UNCHANGED <<issued, rotated, successors, burned, nextFamily, received, now>>
    /\ UNCHANGED <<viewVars, clientVars, pageVars, resetVars>>

(* ------------------------- DELETE /users/me ---------------------------- *)
\* userDeletionService.deleteUser: the User document is removed
DeleteAccount(p) ==
    /\ Authenticated(p)
    /\ received < MaxRequests
    /\ received' = received + 1
    /\ db' = [db EXCEPT ![p].status = "deleted"]
    /\ resp' = [op |-> "delete", user |-> p, token |-> NoToken,
                result |-> "ok", step |-> "save", issued |-> NoToken,
                snap |-> db[p].session, changed |-> {p},
                late |-> FALSE, burnt |-> "no", again |-> FALSE]
    /\ UNCHANGED <<reqs, issued, rotated, successors, burned, nextFamily, now>>
    /\ UNCHANGED <<viewVars, clientVars, pageVars, resetVars>>

\* time passes
Tick ==
    /\ now < MaxTime
    /\ now' = now + 1
    /\ UNCHANGED <<db, reqs, issued, rotated, successors, burned, nextFamily, received, resp>>
    /\ UNCHANGED <<viewVars, clientVars, pageVars, resetVars>>

\* every step of the server when the principals in ps send requests
Step(ps) ==
    \/ \E p \in ps : RegisterCreate(p)
    \/ \E p \in ps : LoginRead(p)
    \/ \E h \in BagToSet(reqs) : BeginSessionSave(h)
    \/ \E token \in Presentable : RotateEarlyReject(token)
    \/ \E token \in Presentable : RotateRead(token)
    \/ \E h \in BagToSet(reqs) : RotateSave(h)
    \/ \E p \in ps : LogoutRead(p)
    \/ \E h \in BagToSet(reqs) : LogoutSave(h)
    \/ \E p \in ps : DeleteAccount(p)
    \/ Tick

\* one request at a time: while a handler is suspended nothing else is
\* received and the only steps are its resumption and the passing of time
Sequential == reqs # EmptyBag => (reqs' = EmptyBag \/ now' # now)

\* the requests of one principal, interleaved at the handlers' awaits
Next == Step({"A"})

Spec == Init /\ [][Next]_vars

\* the requests of one principal, one at a time
NextSeq == Step({"A"}) /\ Sequential

SpecSeq == Init /\ [][NextSeq]_vars

\* the requests of two principals, one at a time
NextTwo == Step(Principals) /\ Sequential

SpecTwo == Init /\ [][NextTwo]_vars

(* ------------------- the browser: cookies and POST /auth/refresh ------- *)
\* the refreshToken cookie in p's browser: setCookies stores the refresh
\* token of the last register or login (tokenVersion 1, the newest family);
\* the refresh handler sets no cookie
Cookie(p) ==
    LET mine == {t \in issued : t.id = p /\ t.tokenVersion = 1}
    IN  IF mine = {} THEN NoToken
        ELSE CHOOSE t \in mine : \A u \in mine : u.tokenFamily <= t.tokenFamily

\* a POST /auth/refresh from p's browser: the body the script wrote and the
\* cookie the browser attached
Request(p, body) == [body |-> body, cookie |-> Cookie(p), n |-> received + 1]

\* refreshToken: const { refreshToken } = req.body
RequestToken(req) == req.body

\* the refresh handler receives req and runs up to its first await
RefreshRequest(req) ==
    /\ sent' = req
    /\ \/ EarlyReject(RequestToken(req))
       \/ ReadSession(RequestToken(req))

\* AuthContext initAuth after GET /me answered 401:
\* authAPI.refreshToken() = api.post('/auth/refresh'), no body
RestoreSession(p) == RefreshRequest(Request(p, NoToken))

\* a client that writes a refresh token it was handed out into the body
RefreshWithBody(p, token) ==
    /\ token \in issued
    /\ token.id = p
    /\ RefreshRequest(Request(p, token))

\* the requests of one principal and its browser, one at a time
NextRestore ==
    (\/ Step({"A"})
     \/ \E p \in {"A"} : RestoreSession(p)
     \/ \E p \in {"A"}, token \in issued : RefreshWithBody(p, token))
    /\ Sequential

SpecRestore == Init /\ [][NextRestore]_vars

(* ------------------- PUT /vlogs/:id/view (recordView) ------------------ *)
\* the Redis key of the dedup sentinel: `view:${vlogId}:${viewerId}`
\* one key for all the viewers of a vlog
SharedKey(vlogId, viewerId) == <<"view", vlogId, CHOOSE p \in Principals : TRUE>>

ViewKey(vlogId, viewerId) == <<"view", vlogId, viewerId>>

\* the Redis key cacheMiddleware stores a GET response under: cache:<url>
CacheKey(url) == <<"cache", url>>

IsViewKey(k) == k[1] = "view"

\* a SET that stores nothing
RedisKeep(data, k, value) == data

\* redis.set(key, value, 'NX', 'EX', ttl) on a key that is absent
RedisPut(data, k, value) == (k :> value) @@ data

\* a deletion that removes nothing
RedisHold(data, ks) == data

\* a key is deleted or expires
RedisDel(data, ks) == [k \in DOMAIN data \ ks |-> data[k]]

\* req.user of a request without an access token: never set
Visitor == "-"
\* no session middleware is mounted: req.sessionID is undefined
NoSession == "-"

\* crypto.createHash('sha256').update(ip).digest('hex').substring(0, 16)
HashedIp(ip) == <<"sha256", ip>>

\* vlogController.recordView: the viewer id, priority user id > session id
\* > hashed ip.  The route runs protect first, so the controller only ever
\* sees requests with req.user set.
ViewerId(req) ==
    IF req.user # Visitor THEN req.user
    ELSE IF req.sessionID # NoSession THEN req.sessionID
    ELSE HashedIp(req.ip)

\* the view requests of a visitor who is not signed in: no access token,
\* with or without a session id
VisitorRequests ==
    {[user |-> Visitor, sessionID |-> sid, ip |-> "ip1"] : sid \in {NoSession, "s1"}}

\* a recordView call suspended before a store operation: pc is the operation
\* it resumes with, window the number of expiries of its key when it arrived,
\* serial its place in the order of arrival, tries the number of $inc
\* operations it has sent to MongoDB, wasSet what redis.set answered
Call(vlogId, viewerId, pc, cause) ==
    [vlogId |-> vlogId, viewerId |-> viewerId, pc |-> pc, cause |-> cause,
     window |-> windows[<<vlogId, viewerId>>], serial |-> viewReceived + 1,
     tries |-> 0,
     wasSet |-> CASE pc = "inc" -> "OK" [] pc = "read" -> "null" [] OTHER -> "error"]

\* vlogController.recordView: res.status(200).json({success, data})
ViewPayload(result) ==
    [views |-> result.views, hasViewed |-> TRUE,
     incremented |-> result.incremented, ttl |-> VIEW_TTL_SECONDS]

\* the view keys whose presence differs between two Redis states
ChangedKeys(d, e) ==
    {k \in DOMAIN d \cup DOMAIN e :
        IsViewKey(k) /\ ~(k \in DOMAIN d /\ k \in DOMAIN e)}

\* the vlogs whose stored views differ between two collections
ChangedViews(d, e) == {v \in Contents : d[v] # e[v]}

\* recordView up to its first await: protect has passed, the controller
\* has derived the viewer id, and redis.set(key, '1', 'NX', 'EX', ttl) has
\* answered 'OK' (key absent, now set), null (key present) or has thrown
\* (viewCountLimiter allows 20 calls a minute, more than MaxViewRequests)
RecordViewSet(p, vlogId) ==
    /\ Authenticated(p)
    /\ viewReceived < MaxViewRequests
    /\ BagCardinality(calls) < Cardinality(Suspended)
    /\ viewReceived' = viewReceived + 1
    /\ LET viewerId == ViewerId([user |-> p])
           redisKey == ViewKey(vlogId, viewerId)
       IN  IF ~redisUp
           THEN /\ calls' = calls (+) SetToBag({Call(vlogId, viewerId, "catch", "redis")})
                /\ redisData' = redisData
           ELSE IF redisKey \in DOMAIN redisData
           THEN /\ calls' = calls (+) SetToBag({Call(vlogId, viewerId, "read", "none")})
                /\ redisData' = redisData
           ELSE /\ calls' = calls (+) SetToBag({Call(vlogId, viewerId, "inc", "none")})
                /\ redisData' = RedisPut(redisData, redisKey, "1")
    /\ UNCHANGED <<vlogs, redisUp, windows, answers, viewResp>>
    /\ UNCHANGED <<storeUp, authVars, clientVars, pageVars, resetVars>>

\* an update that leaves the counter as it is
KeepViews(d, vlogId) == d

\* a read-modify-write at the application layer: the counter read when the
\* calls arrived (0) plus one is written back
WriteViews(d, vlogId) == [d EXCEPT ![vlogId] = 1]

\* Vlog.findByIdAndUpdate(vlogId, {$inc: {views: 1}}, {new: true})
IncViews(d, vlogId) == [d EXCEPT ![vlogId] = @ + 1]

\* what a returned call leaves in the history: what it was told, by how much
\* its store operation changed the counter, whether another call for the
\* same pair was still running when it returned, what sent it to the catch
\* block if anything did, and how many $inc operations it sent
Answer(c, result, degraded, tries) ==
    [vlogId |-> c.vlogId, viewerId |-> c.viewerId, window |-> c.window,
     serial |-> c.serial,
     incremented |-> result.incremented, views |-> result.views,
     degraded |-> degraded, cause |-> c.cause, tries |-> tries,
     wasSet |-> c.wasSet,
     delta |-> vlogs'[c.vlogId] - vlogs[c.vlogId],
     overlap |-> \E d \in BagToSet(calls) :
                    d # c /\ d.vlogId = c.vlogId /\ d.viewerId = c.viewerId]

\* the call c returns result from the path it took: 200 with the payload
Return(c, path, result, degraded, tries) ==
    /\ calls' = calls (-) SetToBag({c})
    /\ answers' = answers \cup {Answer(c, result, degraded, tries)}
    /\ viewResp' = [op |-> "recordView", vlogId |-> c.vlogId, viewerId |-> c.viewerId,
                    status |-> 200, path |-> path, result |-> result,
                    body |-> ViewPayload(result),
                    changedViews |-> ChangedViews(vlogs, vlogs'),
                    changedKeys |-> {},
                    cause |-> c.cause, tries |-> tries]

\* an operation inside the try throws: a rejected MongoDB operation, or
\* vlog.views on a null document (TypeError).  The catch block takes it for
\* a Redis failure and the call goes on there.
ThrowInTry(c, tries) ==
    /\ calls' = (calls (-) SetToBag({c}))
                    (+) SetToBag({[c EXCEPT !.pc = "catch", !.cause = "store",
                                           !.tries = tries]})
    /\ UNCHANGED <<vlogs, answers, viewResp>>

\* the call's error leaves recordView: asyncHandler passes it to
\* errorHandler, which answers 500
ThrowOut(c, tries) ==
    /\ vlogs' = vlogs
    /\ calls' = calls (-) SetToBag({c})
    /\ answers' = answers
    /\ viewResp' = [op |-> "recordView", vlogId |-> c.vlogId,
                    viewerId |-> c.viewerId, status |-> 500, path |-> "error",
                    result |-> NoResult, body |-> NoResult,
                    changedViews |-> {}, changedKeys |-> {},
                    cause |-> c.cause, tries |-> tries]

\* the new-view path: the $inc and the return; MongoDB rejects the $inc, or
\* the document is null
RecordViewIncrement(c) ==
    /\ c.pc = "inc"
    /\ BagIn(c, calls)
    /\ IF storeUp /\ vlogs[c.vlogId] # NoVlog
       THEN /\ vlogs' = IncViews(vlogs, c.vlogId)
            /\ Return(c, "new", [incremented |-> TRUE, views |-> vlogs'[c.vlogId]],
                      FALSE, c.tries + 1)
       ELSE ThrowInTry(c, c.tries + 1)
    /\ UNCHANGED <<redisData, redisUp, windows, viewReceived>>
    /\ UNCHANGED <<storeUp, authVars, clientVars, pageVars, resetVars>>

\* the $inc of the try block is applied by MongoDB and the connection is
\* lost before the reply arrives: findByIdAndUpdate rejects although the
\* counter was raised, and the call goes on in the catch block
RecordViewIncrementLost(c) ==
    /\ c.pc = "inc"
    /\ BagIn(c, calls)
    /\ storeUp /\ vlogs[c.vlogId] # NoVlog
    /\ vlogs' = IncViews(vlogs, c.vlogId)
    /\ storeUp' = FALSE
    /\ calls' = (calls (-) SetToBag({c}))
                    (+) SetToBag({[c EXCEPT !.pc = "catch", !.cause = "store",
                                           !.tries = c.tries + 1]})
    /\ UNCHANGED <<redisData, redisUp, windows, answers, viewReceived, viewResp>>
    /\ UNCHANGED <<authVars, clientVars, pageVars, resetVars>>

\* the duplicate path: Vlog.findById(vlogId, 'views') and the return;
\* MongoDB rejects the read, or the document is null
RecordViewRead(c) ==
    /\ c.pc = "read"
    /\ BagIn(c, calls)
    /\ IF storeUp /\ vlogs[c.vlogId] # NoVlog
       THEN /\ vlogs' = vlogs
            /\ Return(c, "duplicate", [incremented |-> FALSE, views |-> vlogs[c.vlogId]],
                      FALSE, c.tries)
       ELSE ThrowInTry(c, c.tries)
    /\ UNCHANGED <<redisData, redisUp, windows, viewReceived>>
    /\ UNCHANGED <<storeUp, authVars, clientVars, pageVars, resetVars>>

\* the catch block: the $inc and the degraded return; if MongoDB rejects
\* the $inc, or vlog.views throws on a null document, the error leaves
\* recordView and the request ends in a 500
RecordViewCatch(c) ==
    /\ c.pc = "catch"
    /\ BagIn(c, calls)
    /\ IF storeUp /\ vlogs[c.vlogId] # NoVlog
       THEN /\ vlogs' = IncViews(vlogs, c.vlogId)
            /\ Return(c, "degraded",
                      [incremented |-> TRUE, views |-> vlogs'[c.vlogId], degraded |-> TRUE],
                      TRUE, c.tries + 1)
       ELSE ThrowOut(c, c.tries + 1)
    /\ UNCHANGED <<redisData, redisUp, windows, viewReceived>>
    /\ UNCHANGED <<storeUp, authVars, clientVars, pageVars, resetVars>>

\* PUT /vlogs/:id/view without an access token: protect finds no token and
\* calls next(ErrorResponse('Not authorized to access this route', 401));
\* viewCountLimiter and the controller are not run
VisitorView(vlogId, req) ==
    /\ req.user = Visitor
    /\ viewReceived < MaxViewRequests
    /\ viewReceived' = viewReceived + 1
    /\ viewResp' = [op |-> "recordView", vlogId |-> vlogId, viewerId |-> Visitor,
                    status |-> 401, path |-> "protect",
                    result |-> NoResult, body |-> NoResult,
                    changedViews |-> {}, changedKeys |-> {},
                    cause |-> "none", tries |-> 0]
    /\ UNCHANGED <<vlogs, redisData, redisUp, calls, windows, answers>>
    /\ UNCHANGED <<storeUp, authVars, clientVars, pageVars, resetVars>>

\* recordView has sent redis.set on an open connection and Redis has not
\* answered yet: the call is suspended at its first await.  redisConfig sets
\* no commandTimeout, so nothing in the client ends the wait while the
\* connection stays open.
RecordViewSend(p, vlogId) ==
    /\ Authenticated(p)
    /\ viewReceived < MaxViewRequests
    /\ BagCardinality(calls) < Cardinality(Suspended)
    /\ redisUp
    /\ viewReceived' = viewReceived + 1
    /\ calls' = calls (+) SetToBag({[Call(vlogId, ViewerId([user |-> p]), "set", "none")
                                        EXCEPT !.wasSet = "none"]})
    /\ UNCHANGED <<vlogs, redisData, redisUp, windows, answers, viewResp>>
    /\ UNCHANGED <<storeUp, authVars, clientVars, pageVars, resetVars>>

\* Redis answers the pending SET NX EX: 'OK' and the key is set, or null
RedisAnswer(c) ==
    /\ c.pc = "set"
    /\ redisUp
    /\ LET redisKey == ViewKey(c.vlogId, c.viewerId)
           w == windows[<<c.vlogId, c.viewerId>>]
       IN  IF redisKey \in DOMAIN redisData
           THEN /\ calls' = (calls (-) SetToBag({c}))
                               (+) SetToBag({[c EXCEPT !.pc = "read", !.wasSet = "null",
                                                      !.window = w]})
                /\ redisData' = redisData
           ELSE /\ calls' = (calls (-) SetToBag({c}))
                               (+) SetToBag({[c EXCEPT !.pc = "inc", !.wasSet = "OK",
                                                      !.window = w]})
                /\ redisData' = RedisPut(redisData, redisKey, "1")
    /\ UNCHANGED <<vlogs, redisUp, windows, answers, viewReceived, viewResp>>
    /\ UNCHANGED <<storeUp, authVars, clientVars, pageVars, resetVars>>

\* the connection is gone and the reconnections fail: ioredis rejects the
\* pending command (maxRetriesPerRequest: 3, retryStrategy stops after 10
\* attempts) and redis.set throws into the catch block
CommandRejected(c) ==
    /\ c.pc = "set"
    /\ ~redisUp
    /\ calls' = (calls (-) SetToBag({c}))
                    (+) SetToBag({[c EXCEPT !.pc = "catch", !.cause = "redis",
                                           !.wasSet = "error"]})
    /\ UNCHANGED <<vlogs, redisData, redisUp, windows, answers, viewReceived, viewResp>>
    /\ UNCHANGED <<storeUp, authVars, clientVars, pageVars, resetVars>>

\* the TTL of a key runs out and Redis drops it
Expire(k) ==
    /\ k \in DOMAIN redisData
    /\ IsViewKey(k) => windows[<<k[2], k[3]>>] < MaxExpiries
    /\ redisData' = RedisDel(redisData, {k})
    /\ windows' = IF IsViewKey(k) THEN [windows EXCEPT ![<<k[2], k[3]>>] = @ + 1]
                   ELSE windows
    /\ UNCHANGED <<vlogs, redisUp, calls, answers, viewReceived, viewResp>>
    /\ UNCHANGED <<storeUp, authVars, clientVars, pageVars, resetVars>>

\* the connection to Redis is lost: commands are rejected
RedisDown ==
    /\ redisUp
    /\ redisUp' = FALSE
    /\ UNCHANGED <<vlogs, redisData, calls, windows, answers, viewReceived, viewResp>>
    /\ UNCHANGED <<storeUp, authVars, clientVars, pageVars, resetVars>>

\* the connection is back ('ready'); the keys are still there
RedisReady ==
    /\ ~redisUp
    /\ redisUp' = TRUE
    /\ UNCHANGED <<vlogs, redisData, calls, windows, answers, viewReceived, viewResp>>
    /\ UNCHANGED <<storeUp, authVars, clientVars, pageVars, resetVars>>

\* MongoDB stops answering: the Vlog operations are rejected
StoreDown ==
    /\ storeUp
    /\ storeUp' = FALSE
    /\ UNCHANGED <<vlogs, redisData, redisUp, calls, windows, answers, viewReceived, viewResp>>
    /\ UNCHANGED <<authVars, clientVars, pageVars, resetVars>>

\* MongoDB answers again
StoreReady ==
    /\ ~storeUp
    /\ storeUp' = TRUE
    /\ UNCHANGED <<vlogs, redisData, redisUp, calls, windows, answers, viewReceived, viewResp>>
    /\ UNCHANGED <<authVars, clientVars, pageVars, resetVars>>

(* ------------------- GET /vlogs/:id, GET /vlogs, PUT, DELETE ----------- *)
\* what a fetch does to the view counters: nothing
FetchViews(d, vlogId) == d

\* the response of a vlog request other than recordView
VlogResponse(op, vlogId, status, views) ==
    [op |-> op, vlogId |-> vlogId, viewerId |-> "-", status |-> status,
     path |-> "none", result |-> NoResult, body |-> [views |-> views],
     changedViews |-> ChangedViews(vlogs, vlogs'),
     changedKeys |-> ChangedKeys(redisData, redisData'),
     cause |-> "none", tries |-> 0]

\* GET /vlogs/:id: optionalAuth, cacheMiddleware(300), getVlog.  A cache hit
\* answers from Redis; a miss runs VlogService.getVlog (findById, 404 on
\* null) and stores the 200 response under the cache key.
GetVlog(vlogId) ==
    /\ viewReceived < MaxViewRequests
    /\ viewReceived' = viewReceived + 1
    /\ vlogs' = FetchViews(vlogs, vlogId)
    /\ LET cacheKey == CacheKey(vlogId)
       IN  IF redisUp /\ cacheKey \in DOMAIN redisData
           THEN /\ redisData' = redisData
                /\ viewResp' = VlogResponse("getVlog", vlogId, 200, redisData[cacheKey])
           ELSE IF vlogs[vlogId] = NoVlog
           THEN /\ redisData' = redisData
                /\ viewResp' = VlogResponse("getVlog", vlogId, 404, NoVlog)
           ELSE /\ redisData' = IF redisUp
                                 THEN RedisPut(redisData, cacheKey, vlogs[vlogId])
                                 ELSE redisData
                /\ viewResp' = VlogResponse("getVlog", vlogId, 200, vlogs[vlogId])
    /\ UNCHANGED <<redisUp, calls, windows, answers>>
    /\ UNCHANGED <<storeUp, authVars, clientVars, pageVars, resetVars>>

\* GET /vlogs: optionalAuth, cacheMiddleware(180), getVlogs (Vlog.find)
GetVlogs ==
    /\ viewReceived < MaxViewRequests
    /\ viewReceived' = viewReceived + 1
    /\ vlogs' = FetchViews(vlogs, "list")
    /\ LET cacheKey == CacheKey("list")
       IN  IF redisUp /\ cacheKey \in DOMAIN redisData
           THEN /\ redisData' = redisData
                /\ viewResp' = VlogResponse("getVlogs", "list", 200, redisData[cacheKey])
           ELSE /\ redisData' = IF redisUp THEN RedisPut(redisData, cacheKey, vlogs)
                                 ELSE redisData
                /\ viewResp' = VlogResponse("getVlogs", "list", 200, vlogs)
    /\ UNCHANGED <<redisUp, calls, windows, answers>>
    /\ UNCHANGED <<storeUp, authVars, clientVars, pageVars, resetVars>>

\* invalidateVlogCache: delPattern('cache:/api/vlogs:*') and
\* ('cache:/api/vlogs/*'), skipped when Redis is not available
InvalidateVlogCache(data) ==
    IF redisUp THEN RedisDel(data, {k \in DOMAIN data : ~IsViewKey(k)}) ELSE data

\* the request bodies an author sends to PUT /vlogs/:id: fields of the
\* Vlog schema, with or without views
UpdateBodies == {[title |-> "t"], [title |-> "t", views |-> 9]}

\* PUT /vlogs/:id by the author: Vlog.findByIdAndUpdate(id, req.body) sets
\* every schema field the body carries, then the GET cache is invalidated
UpdateVlog(vlogId, body) ==
    /\ viewReceived < MaxViewRequests
    /\ viewReceived' = viewReceived + 1
    /\ vlogs[vlogId] # NoVlog
    /\ vlogs' = IF "views" \in DOMAIN body THEN [vlogs EXCEPT ![vlogId] = body.views]
                ELSE vlogs
    /\ redisData' = InvalidateVlogCache(redisData)
    /\ viewResp' = VlogResponse("updateVlog", vlogId, 200, vlogs'[vlogId])
    /\ UNCHANGED <<redisUp, calls, windows, answers>>
    /\ UNCHANGED <<storeUp, authVars, clientVars, pageVars, resetVars>>

\* DELETE /vlogs/:id by the author: vlog.deleteOne(), cache invalidated
DeleteVlog(vlogId) ==
    /\ viewReceived < MaxViewRequests
    /\ viewReceived' = viewReceived + 1
    /\ vlogs[vlogId] # NoVlog
    /\ vlogs' = [vlogs EXCEPT ![vlogId] = NoVlog]
    /\ redisData' = InvalidateVlogCache(redisData)
    /\ viewResp' = VlogResponse("deleteVlog", vlogId, 200, NoVlog)
    /\ UNCHANGED <<redisUp, calls, windows, answers>>
    /\ UNCHANGED <<storeUp, authVars, clientVars, pageVars, resetVars>>

\* The state the vlog requests start from: both principals registered and
\* signed in (the state SpecTwo reaches by two registrations), each vlog
\* published with the schema default views: 0.
InitSignedIn ==
    /\ db = [p \in Principals |->
               [status |-> "active",
                session |-> BeginSessionFields(
                    generateRefreshToken(p, IF p = "A" THEN 1 ELSE 2, 1, 0),
                    IF p = "A" THEN 1 ELSE 2)]]
    /\ reqs = EmptyBag
    /\ issued = {generateRefreshToken("A", 1, 1, 0), generateRefreshToken("B", 2, 1, 0)}
    /\ rotated = {}
    /\ successors = {}
    /\ burned = {}
    /\ nextFamily = 3
    /\ received = 2
    /\ now = 0
    /\ resp = [op |-> "register", user |-> "B", token |-> NoToken, result |-> "ok",
               step |-> "save", issued |-> generateRefreshToken("B", 2, 1, 0),
               snap |-> DefaultSession, changed |-> {"B"},
               late |-> FALSE, burnt |-> "no", again |-> FALSE]

InitView ==
    /\ InitSignedIn
    /\ vlogs = [v \in Contents |-> 0]
    /\ redisData = << >>
    /\ redisUp = TRUE
    /\ storeUp = TRUE
    /\ calls = EmptyBag
    /\ windows = [k \in Contents \X Principals |-> 0]
    /\ answers = {}
    /\ viewReceived = 0
    /\ viewResp = NoViewResponse
    /\ sent = NoRequest
    /\ page = NoPage
    /\ recovery = NoRecovery

\* the steps of PUT /vlogs/:id/view when the principals in ps view the
\* vlogs in cs: the calls interleave at the awaits of recordView
RecordViewStep(ps, cs) ==
    \/ \E p \in ps, v \in cs : RecordViewSet(p, v)
    \/ \E c \in BagToSet(calls) : RecordViewIncrement(c)
    \/ \E c \in BagToSet(calls) : RecordViewRead(c)
    \/ \E c \in BagToSet(calls) : RecordViewCatch(c)

\* what Redis does by itself: keys expire, the connection goes and comes back
RedisStep ==
    \/ \E k \in DOMAIN redisData : Expire(k)
    \/ RedisDown
    \/ RedisReady

\* the other vlog routes
VlogStep(cs) ==
    \/ \E v \in cs : GetVlog(v)
    \/ GetVlogs
    \/ \E v \in cs, body \in UpdateBodies : UpdateVlog(v, body)
    \/ \E v \in cs : DeleteVlog(v)

ViewStep(ps, cs) == RecordViewStep(ps, cs) \/ RedisStep \/ VlogStep(cs)

\* one request at a time: while a recordView call is suspended no other
\* request is received
SequentialViews == calls # EmptyBag => viewReceived' = viewReceived

\* two viewers viewing one vlog, their calls interleaved
NextView == RecordViewStep(Principals, {"v1"}) \/ RedisStep

\* the requests of two viewers for one vlog, one at a time
NextViewSeq == ViewStep(Principals, {"v1"}) /\ SequentialViews

SpecViewSeq == InitView /\ [][NextViewSeq]_vars

\* one viewer viewing one vlog again and again, nothing else going on
NextViewRapid == RecordViewStep({"A"}, {"v1"}) \/ RedisStep

SpecViewRapid == InitView /\ [][NextViewRapid]_vars

\* two viewers viewing two vlogs, one call at a time
NextPairs == (RecordViewStep(Principals, Contents) \/ RedisStep) /\ SequentialViews

SpecPairs == InitView /\ [][NextPairs]_vars

\* what MongoDB does by itself, and what its going does to a pending $inc
StoreStep ==
    \/ StoreDown
    \/ StoreReady
    \/ \E c \in BagToSet(calls) : RecordViewIncrementLost(c)

\* one viewer viewing one vlog, one call at a time, while Redis and MongoDB
\* come and go
NextStore ==
    (RecordViewStep({"A"}, {"v1"}) \/ RedisStep \/ StoreStep) /\ SequentialViews

SpecStore == InitView /\ [][NextStore]_vars

\* the steps of a redis.set that Redis does not answer at once
PendingStep(ps, cs) ==
    \/ \E p \in ps, v \in cs : RecordViewSend(p, v)
    \/ \E c \in BagToSet(calls) : RedisAnswer(c)
    \/ \E c \in BagToSet(calls) : CommandRejected(c)

\* one viewer viewing one vlog while Redis answers late, never, or not at all
NextCache ==
    RecordViewStep({"A"}, {"v1"}) \/ PendingStep({"A"}, {"v1"}) \/ RedisStep

\* what the server does once it can: a suspended call resumes when its
\* MongoDB operation has answered, and ioredis rejects a pending command
\* when the connection is gone, also one that goes and comes back again and
\* again (the command is given up after maxRetriesPerRequest closes).
\* Redis answering, and the connection going or coming back, are not the
\* server's to decide.
FairCache ==
    /\ WF_vars(\E c \in BagToSet(calls) : RecordViewIncrement(c))
    /\ WF_vars(\E c \in BagToSet(calls) : RecordViewRead(c))
    /\ WF_vars(\E c \in BagToSet(calls) : RecordViewCatch(c))
    /\ SF_vars(\E c \in BagToSet(calls) : CommandRejected(c))

SpecCache == InitView /\ [][NextCache]_vars /\ FairCache

\* a signed-in viewer and visitors who are not signed in viewing one vlog
NextVisitor ==
    \/ RecordViewStep({"A"}, {"v1"})
    \/ RedisStep
    \/ \E req \in VisitorRequests : VisitorView("v1", req)

SpecVisitor == InitView /\ [][NextVisitor]_vars

\* every vlog route, one viewer, the requests interleaved
NextVlog == ViewStep({"A"}, {"v1"})

SpecVlog == InitView /\ [][NextVlog]_vars

SpecView == InitView /\ [][NextView]_vars

(* ------------------- AuthContext.jsx: initAuth ------------------------- *)
\* a guard that looks at globalAuthInitialized only
OnlyInitialized(pg) == pg.globalAuthInitialized

\* if (globalAuthInitializing || globalAuthInitialized)
AlreadyInitializing(pg) == pg.globalAuthInitializing \/ pg.globalAuthInitialized

\* the finally block of initAuth after setIsAuthenticated(auth):
\* setLoading(false), globalAuthInitializing = false,
\* globalAuthInitialized = true
Finally(pg, r, auth) ==
    [pg EXCEPT !.provider[r.inst] = [loading |-> FALSE, isAuthenticated |-> auth],
               !.runs = @ \ {r},
               !.globalAuthInitializing = FALSE,
               !.globalAuthInitialized = TRUE,
               !.outcome = IF auth THEN "authenticated" ELSE "anonymous"]

\* the mount effect of instance i runs initAuth up to its first await: the
\* guard, then either setLoading(false) and return, or the flag is taken
\* and GET /auth/me is sent
InitAuth(i) ==
    /\ page.effects < MaxEffectRuns
    /\ page' = IF AlreadyInitializing(page)
               THEN [page EXCEPT !.effects = @ + 1,
                                 !.provider[i].loading = FALSE]
               ELSE [page EXCEPT !.effects = @ + 1,
                                 !.globalAuthInitializing = TRUE,
                                 !.started = @ + 1,
                                 !.me = @ + 1,
                                 !.runs = @ \cup {[inst |-> i, pc |-> "me"]}]
    /\ UNCHANGED <<authVars, viewVars, clientVars, resetVars>>

\* the statuses the requests of initAuth are answered with
Statuses == {200, 401, 429, 500}

\* authAPI.getMe() settles: 200 sets the user, 401 sends the refresh, any
\* other error ends the restoration signed out
GetMeSettles(r, status) ==
    /\ r \in page.runs /\ r.pc = "me"
    /\ page' = CASE status = 200 -> Finally(page, r, TRUE)
                 [] status = 401 ->
                        [page EXCEPT !.runs = (@ \ {r}) \cup {[r EXCEPT !.pc = "refresh"]},
                                     !.refresh = @ + 1]
                 [] OTHER -> Finally(page, r, FALSE)
    /\ UNCHANGED <<authVars, viewVars, clientVars, resetVars>>

\* authAPI.refreshToken() settles: 200 sends GET /auth/me again, an error
\* ends the restoration signed out
RefreshSettles(r, status) ==
    /\ r \in page.runs /\ r.pc = "refresh"
    /\ page' = IF status = 200
               THEN [page EXCEPT !.runs = (@ \ {r}) \cup {[r EXCEPT !.pc = "me2"]},
                                 !.me = @ + 1]
               ELSE Finally(page, r, FALSE)
    /\ UNCHANGED <<authVars, viewVars, clientVars, resetVars>>

\* the second authAPI.getMe() settles
GetMeAgainSettles(r, status) ==
    /\ r \in page.runs /\ r.pc = "me2"
    /\ page' = Finally(page, r, status = 200)
    /\ UNCHANGED <<authVars, viewVars, clientVars, resetVars>>

NextPage ==
    \/ \E i \in Instances : InitAuth(i)
    \/ \E r \in page.runs, status \in Statuses : GetMeSettles(r, status)
    \/ \E r \in page.runs, status \in Statuses : RefreshSettles(r, status)
    \/ \E r \in page.runs, status \in Statuses : GetMeAgainSettles(r, status)

SpecPage == Init /\ [][NextPage]_vars

(* ------------------ forgotPassword / resetPassword --------------------- *)
\* resetPassword: user.password = req.body.password, passwordResetUsed =
\* true, the token fields undefined, await user.save(): every one of the
\* four paths is modified, and the update filters on _id alone
SaveReset(doc, h) ==
    [password |-> HashPassword(h.password), passwordResetToken |-> Unset,
     passwordResetExpires |-> 0, passwordResetUsed |-> TRUE]

\* forgotPassword: generatePasswordResetToken and save.  The token and the
\* expiry are always modified; passwordResetUsed = false is a modified path
\* only if the loaded value was true.
SaveForgot(doc, h, resetToken, t) ==
    [doc EXCEPT !.passwordResetToken = Sha256(resetToken),
                !.passwordResetExpires = t + ResetExpire,
                !.passwordResetUsed = IF h.snap.passwordResetUsed THEN FALSE ELSE @]

\* User.findOne({passwordResetToken: hash, passwordResetExpires: {$gt: now}})
FindByResetToken(doc, resetToken, t) ==
    /\ doc.passwordResetToken = Sha256(resetToken)
    /\ doc.passwordResetExpires > t

\* a handler of the recovery routes suspended at its save
ResetHandler(op, resetToken, password) ==
    [op |-> op, n |-> recovery.received + 1, token |-> resetToken,
     password |-> password, snap |-> recovery.doc]

\* POST /auth/forgotpassword up to its save: the account is found
ForgotRead ==
    /\ recovery.received < MaxResetRequests
    /\ Cardinality(recovery.handlers) < Cardinality(Suspended)
    /\ recovery' = [recovery EXCEPT
                        !.received = @ + 1,
                        !.handlers = @ \cup {ResetHandler("forgot", 0, "-")}]
    /\ UNCHANGED <<authVars, viewVars, clientVars, pageVars>>

\* the save of forgotPassword and the mail that carries the new token
\* (crypto.randomBytes(32): a value not used before)
ForgotSave(h) ==
    /\ h \in recovery.handlers /\ h.op = "forgot"
    /\ recovery' = [recovery EXCEPT
                        !.doc = SaveForgot(@, h, h.n, recovery.now),
                        !.handlers = @ \ {h},
                        !.mailed = @ \cup {h.n},
                        !.resp = [op |-> "forgot", token |-> h.n, status |-> 200,
                                  message |-> "Password reset email sent"]]
    /\ UNCHANGED <<authVars, viewVars, clientVars, pageVars>>

\* PUT /auth/resetpassword/:resettoken up to its save: no account with
\* this token, unexpired (400), or one whose token was used (400), or the
\* handler goes on to its save
ResetRead(resetToken, password) ==
    /\ recovery.received < MaxResetRequests
    /\ Cardinality(recovery.handlers) < Cardinality(Suspended)
    /\ LET found == FindByResetToken(recovery.doc, resetToken, recovery.now)
           message == IF ~found THEN "Invalid or expired token"
                      ELSE "This password reset link has already been used. Please request a new one."
       IN  recovery' =
               IF found /\ ~recovery.doc.passwordResetUsed
               THEN [recovery EXCEPT
                        !.received = @ + 1,
                        !.handlers = @ \cup {ResetHandler("reset", resetToken, password)}]
               ELSE [recovery EXCEPT
                        !.received = @ + 1,
                        !.resp = [op |-> "reset", token |-> resetToken,
                                  status |-> 400, message |-> message]]
    /\ UNCHANGED <<authVars, viewVars, clientVars, pageVars>>

\* the save of resetPassword and its 200
ResetSave(h) ==
    /\ h \in recovery.handlers /\ h.op = "reset"
    /\ recovery' = [recovery EXCEPT
                        !.doc = SaveReset(@, h),
                        !.handlers = @ \ {h},
                        !.wins = @ \cup {[token |-> h.token, n |-> h.n,
                                          password |-> h.password]},
                        !.resp = [op |-> "reset", token |-> h.token, status |-> 200,
                                  message |-> "Password reset successful"]]
    /\ UNCHANGED <<authVars, viewVars, clientVars, pageVars>>

\* time passes
ResetTick ==
    /\ recovery.now < MaxTime
    /\ recovery' = [recovery EXCEPT !.now = @ + 1]
    /\ UNCHANGED <<authVars, viewVars, clientVars, pageVars>>

\* the recovery requests for one account, interleaved at the handlers' awaits
NextReset ==
    \/ ForgotRead
    \/ \E h \in recovery.handlers : ForgotSave(h)
    \/ \E resetToken \in recovery.mailed, password \in Passwords :
           ResetRead(resetToken, password)
    \/ \E h \in recovery.handlers : ResetSave(h)
    \/ ResetTick

SpecReset == Init /\ [][NextReset]_vars

(* ------------------------------ claims --------------------------------- *)
\* rotate, presented with the token now and running alone, would succeed
Accepted(token) ==
    /\ token.kind = "jwt"
    /\ EarlyRejection(token) = "none"
    /\ RotateStep(db[FindById(token)].session, token) = "rotate"

\* the session fields revokeAllSessions leaves, whatever the time
IsRevokedTuple(u) ==
    /\ u.revokedAt # Null
    /\ u.tokenVersion = 0
    /\ u.tokenFamily = NoFamily
    /\ u.refreshTokenHash = NoHash

\* C1 (single-use): a rotate call that started after a rotate of the same
\* token had succeeded never succeeds and never issues a token.
C1_SingleUse ==
    (resp.op = "rotate" /\ resp.late) => (resp.result # "ok" /\ resp.issued = NoToken)

\* a rotate response whose handler reached the checks on a loaded document
Checked == resp.op = "rotate" /\ resp.step # "verify"

\* C2 (reuse detection, SpecSeq): with requests served one at a time, a
\* rotate that presents an already rotated token while that token's family
\* is still the stored one and the session is not revoked answers
\* TokenReuseDetected and leaves the session revoked: revokedAt set,
\* tokenVersion 0, tokenFamily and refreshTokenHash cleared.
C2_ReuseRevokes ==
    (/\ Checked
     /\ resp.late
     /\ resp.snap.revokedAt = Null
     /\ resp.snap.tokenFamily = resp.token.tokenFamily)
    => (/\ resp.result = "TokenReuseDetected"
        /\ resp.issued = NoToken
        /\ IsRevokedTuple(db[resp.user].session))

\* C2 witness: register, rotate(T1) succeeded, rotate(T1) again was answered
\* TokenReuseDetected
C2_Witness ==
    /\ resp.op = "rotate"
    /\ resp.token.tokenVersion = 1
    /\ resp.late
    /\ resp.result = "TokenReuseDetected"
    /\ IsRevokedTuple(db["A"].session)

\* C3 (reuse containment): once reuse was detected in a family, every later
\* rotate presenting a token of that family is rejected, and as long as no
\* login or register has completed since, a token that verifies is rejected
\* with SessionRevoked.
C3_ReuseContainment ==
    /\ (resp.op = "rotate" /\ resp.burnt # "no")
          => (resp.result # "ok" /\ resp.issued = NoToken)
    /\ (Checked /\ resp.burnt = "live") => resp.result = "SessionRevoked"

\* C3 witness: the newest token of the family, never rotated, is presented
\* after the replay of an older one and rejected with SessionRevoked
C3_Witness ==
    /\ Checked
    /\ resp.burnt = "live"
    /\ resp.token.tokenVersion >= 2
    /\ resp.token \notin rotated
    /\ resp.result = "SessionRevoked"

\* the refresh tokens issued to p that rotate would accept now
ValidTokens(p) == {t \in issued : t.id = p /\ Accepted(t)}

\* C4 (one valid token): in every reachable state at most one issued refresh
\* token of a principal would be accepted, and none when the session is
\* revoked.
C4_AtMostOneValid ==
    \A p \in Principals :
        /\ Cardinality(ValidTokens(p)) <= 1
        /\ db[p].session.revokedAt # Null => ValidTokens(p) = {}

\* C5 (concurrent rotation): of the rotate calls that present the same token
\* at most one succeeds, and a token never has two distinct successors.
C5_OneSuccessor ==
    /\ (resp.op = "rotate" /\ resp.result = "ok") => ~resp.again
    /\ \A x \in successors, y \in successors : x[1] = y[1] => x[2] = y[2]

\* C6 as stated: whenever the stored revokedAt of the token's principal is
\* non-null, rotate answers SessionRevoked and writes nothing, whatever the
\* token.
C6_RevokedRejectsAnyToken ==
    (resp.op = "rotate" /\ resp.token.kind = "jwt" /\ resp.snap.revokedAt # Null)
    => (resp.result = "SessionRevoked" /\ resp.changed = {})

\* C6 amended: whenever the stored revokedAt is non-null, a rotate whose
\* token passes signature and expiry verification answers SessionRevoked and
\* writes nothing, whatever the token's family, version and hash.
C6_RevokedRejectsVerified ==
    (Checked /\ resp.snap.revokedAt # Null)
    => (resp.result = "SessionRevoked" /\ resp.issued = NoToken /\ resp.changed = {})

\* C6 witness: a token whose family and version are the stored ones (a
\* logout overtook the login that issued it) is rejected as revoked
C6_Witness ==
    /\ Checked
    /\ resp.snap.revokedAt # Null
    /\ resp.snap.tokenFamily = resp.token.tokenFamily
    /\ resp.snap.tokenVersion = resp.token.tokenVersion
    /\ BcryptCompare(resp.token, resp.snap.refreshTokenHash)
    /\ resp.result = "SessionRevoked"
    /\ resp.changed = {}

\* C7 (family isolation, SpecTwo): a rotate presenting a token issued to one
\* principal changes no other principal's document and returns a token for
\* no other principal.
C7_FamilyIsolation ==
    (resp.op = "rotate" /\ resp.token.kind = "jwt")
    => (/\ resp.user = resp.token.id
        /\ resp.changed \subseteq {resp.token.id}
        /\ resp.issued # NoToken => resp.issued.id = resp.token.id)

\* C7 witness: while B holds a live session, a rotate with A's token wrote
\* A's document
C7_Witness ==
    /\ resp.op = "rotate"
    /\ resp.token.id = "A"
    /\ resp.changed = {"A"}
    /\ db["B"].status = "active"
    /\ db["B"].session.tokenFamily # NoFamily
    /\ db["B"].session.revokedAt = Null

\* C8 (superseded family): a rotate presenting a token whose family is not
\* the stored one, the session not being revoked, answers InvalidToken,
\* revokes nothing and writes nothing.
C8_SupersededFamily ==
    (/\ Checked
     /\ resp.snap.revokedAt = Null
     /\ resp.snap.tokenFamily # resp.token.tokenFamily)
    => (/\ resp.result = "InvalidToken"
        /\ resp.issued = NoToken
        /\ resp.changed = {})

\* C8 witness: after a second login the token of the first is refused as
\* invalid, and the token of the second login is still the accepted one
C8_Witness ==
    /\ Checked
    /\ resp.snap.revokedAt = Null
    /\ resp.token.tokenFamily # resp.snap.tokenFamily
    /\ resp.result = "InvalidToken"
    /\ resp.changed = {}
    /\ \E t \in issued : t.tokenFamily = resp.snap.tokenFamily /\ Accepted(t)

\* C9 (frame): a rotate that ends anywhere but at reuse detection or at the
\* rotation itself changes no stored document.
C9_RejectionsWriteNothing ==
    (resp.op = "rotate"
       /\ (resp.result \notin {"ok", "TokenReuseDetected"}
             \/ resp.step \notin {"reuse", "rotate"}))
    => resp.changed = {}

\* C9 witness: a token carrying a version above the stored one was refused
\* at the version check while the principal held a live session
C9_Witness ==
    /\ resp.op = "rotate"
    /\ resp.step = "version"
    /\ resp.result = "InvalidToken"
    /\ resp.snap.revokedAt = Null
    /\ resp.changed = {}

\* C10 (beginSession): after a login or register has answered, the stored
\* session has the family of the returned token (never used before),
\* tokenVersion 1, revokedAt null, a hash the returned token verifies
\* against, and the checks of rotate pass for the returned token.
C10_BeginSession ==
    (resp.op \in {"login", "register"} /\ resp.result = "ok")
    => LET u == db[resp.user].session
       IN  /\ u.tokenFamily = resp.issued.tokenFamily
           /\ u.tokenFamily # resp.snap.tokenFamily
           /\ u.tokenVersion = 1
           /\ u.revokedAt = Null
           /\ BcryptCompare(resp.issued, u.refreshTokenHash)
           /\ RotateStep(u, resp.issued) = "rotate"

\* the successful rotations of the family a principal's record holds
Rotations(p) ==
    {x \in successors : x[1].id = p /\ x[1].tokenFamily = db[p].session.tokenFamily}

\* C11 (rotation, SpecSeq): with requests served one at a time, a successful
\* rotate leaves tokenVersion one above the value it found, tokenFamily as
\* it was and revokedAt null, stores a hash the returned token verifies
\* against, and returns a token of the same family, carrying the stored
\* version, that is not the presented one; and a live session that was
\* rotated k times since its login or register has tokenVersion 1 + k.
C11_RotationIncrements ==
    /\ (resp.op = "rotate" /\ resp.result = "ok")
          => LET u == db[resp.user].session
             IN  /\ u.tokenVersion = resp.snap.tokenVersion + 1
                 /\ u.tokenFamily = resp.snap.tokenFamily
                 /\ resp.snap.revokedAt = Null
                 /\ u.revokedAt = Null
                 /\ BcryptCompare(resp.issued, u.refreshTokenHash)
                 /\ resp.issued # resp.token
                 /\ resp.issued.tokenFamily = u.tokenFamily
                 /\ resp.issued.tokenVersion = u.tokenVersion
                 /\ resp.issued.tokenVersion = resp.token.tokenVersion + 1
    /\ \A p \in Principals :
          (db[p].session.revokedAt = Null /\ db[p].session.tokenFamily # NoFamily)
          => db[p].session.tokenVersion = 1 + Cardinality(Rotations(p))

\* C11 witness: login or register, then two rotations, each with the token
\* the step before returned: the stored version is 3
C11_Witness ==
    /\ resp.op = "rotate"
    /\ resp.result = "ok"
    /\ resp.token.tokenVersion = 2
    /\ Cardinality(Rotations(resp.user)) = 2
    /\ db[resp.user].session.tokenVersion = 3
    /\ db[resp.user].session.revokedAt = Null

\* C12 (endSession, SpecSeq): with requests served one at a time every
\* logout succeeds and leaves the fields reuse detection leaves: revokedAt
\* set, tokenVersion 0, tokenFamily and refreshTokenHash cleared, no issued
\* token accepted; a logout of an already revoked session changes nothing
\* but the revocation time.
C12_EndSession ==
    (resp.op = "logout")
    => LET u == db[resp.user].session
       IN  /\ resp.result = "ok"
           /\ IsRevokedTuple(u)
           /\ ValidTokens(resp.user) = {}
           /\ resp.issued = NoToken
           /\ IsRevokedTuple(resp.snap) => [u EXCEPT !.revokedAt = 0] = [resp.snap EXCEPT !.revokedAt = 0]

\* C12 witness: the second of two logouts in a row succeeded on a session
\* that was revoked already
C12_Witness ==
    /\ resp.op = "logout"
    /\ resp.result = "ok"
    /\ IsRevokedTuple(resp.snap)
    /\ IsRevokedTuple(db[resp.user].session)

\* C13 (hash secrecy): in every reachable state the stored refreshTokenHash
\* is empty or a bcrypt string; it is no refresh token handed out, and the
\* issued token that carries the stored family and version verifies against
\* it.
C13_HashSecrecy ==
    \A p \in Principals :
        LET u == db[p].session
        IN  \/ u.refreshTokenHash = NoHash
            \/ /\ u.refreshTokenHash[1] = "$2a$10$"
                /\ \A t \in issued :
                      /\ u.refreshTokenHash[2] # WholeString(t)
                      /\ (t.id = p /\ t.tokenFamily = u.tokenFamily
                            /\ t.tokenVersion = u.tokenVersion)
                          => BcryptCompare(t, u.refreshTokenHash)

\* C13 witness: a record holds a hash and the token of its family and
\* version has been handed out
C13_Witness ==
    \E t \in issued :
        /\ db[t.id].session.refreshTokenHash # NoHash
        /\ t.tokenFamily = db[t.id].session.tokenFamily
        /\ t.tokenVersion = db[t.id].session.tokenVersion
        /\ t.tokenVersion >= 2

(* ------------------------- claims on view counting --------------------- *)
\* two answers to the same (contentId, viewerId) pair in the same window of
\* its dedup key
SameWindow(a, b) ==
    a.vlogId = b.vlogId /\ a.viewerId = b.viewerId /\ a.window = b.window

\* the answers recordView gave with the cache reachable
Reached == {a \in answers : ~a.degraded}

\* C14: with requests served one at a time and the cache reachable, of the
\* recordView calls for one pair made while its dedup key is unexpired the
\* first returns incremented: true and adds one to the counter, every later
\* one returns incremented: false and leaves the counter alone, so the
\* calls change the counter by exactly 1 in total.
C14_DedupIdempotence ==
    \A a \in Reached :
        /\ a.incremented <=>
               ~\E b \in Reached : SameWindow(a, b) /\ b.serial < a.serial
        /\ a.delta = IF a.incremented THEN 1 ELSE 0

C14_Witness ==
    \E a, b, c \in Reached :
        /\ SameWindow(a, b) /\ SameWindow(b, c)
        /\ a.serial < b.serial /\ b.serial < c.serial
        /\ a.incremented /\ ~b.incremented /\ ~c.incremented

\* the pair of v and p has no recordView call running
Quiet(v, p) == ~\E c \in BagToSet(calls) : c.vlogId = v /\ c.viewerId = p

\* C15: recordView calls for the same pair that overlap, with the cache
\* reachable and the key absent when the first arrives, increment the
\* counter exactly once whatever the order of their Redis and MongoDB
\* operations: at most one of them increments, and once all have returned
\* one of them has.
C15_ConcurrentOneIncrement ==
    /\ \A a, b \in Reached :
           SameWindow(a, b) /\ a.delta > 0 /\ b.delta > 0 => a = b
    /\ \A a \in Reached :
           Quiet(a.vlogId, a.viewerId) /\ vlogs[a.vlogId] # NoVlog
               => \E b \in Reached : SameWindow(a, b) /\ b.delta = 1

\* the deduplicated call returned while the call that set the key was
\* still running
C15_Witness ==
    /\ calls = EmptyBag
    /\ Cardinality(answers) = 2
    /\ \E a, b \in Reached :
           /\ SameWindow(a, b) /\ a.serial < b.serial
           /\ a.delta = 1 /\ b.delta = 0 /\ b.overlap

\* C16: the recordView calls for one pair within one window of its key, the
\* cache reachable and no other viewer or writer active, are all told the
\* same views value, the one that incremented and the deduplicated ones.
C16_SameFinalViews ==
    answers = Reached =>
        \A a, b \in Reached : SameWindow(a, b) => a.views = b.views

\* C17: once the dedup key of a pair has expired, the next recordView for
\* the pair that reaches the cache increments the counter again and puts
\* the key back: a view, an expiry and a second view add two to the counter.
C17_ExpiryAllowsIncrement ==
    \A b \in Reached :
        b.window > 0
        /\ ~(\E a \in Reached : SameWindow(a, b) /\ a.serial < b.serial)
            => /\ b.incremented
               /\ b.delta = 1
               /\ b.window = windows[<<b.vlogId, b.viewerId>>]
                      => ViewKey(b.vlogId, b.viewerId) \in DOMAIN redisData

\* a view, the expiry of its key, and a second view: two increments
C17_Witness ==
    \E a, b \in Reached :
        /\ a.vlogId = b.vlogId /\ a.viewerId = b.viewerId
        /\ a.window = 0 /\ b.window = 1
        /\ a.delta = 1 /\ b.delta = 1
        /\ ViewKey(b.vlogId, b.viewerId) \in DOMAIN redisData
        /\ answers = {a, b}
        /\ vlogs[a.vlogId] = 2

\* C18: a recordView whose redis.set threw (Redis unreachable or timed out),
\* on a vlog that exists, does not fail: it adds exactly one to the counter
\* and returns incremented: true, degraded: true and the new count.
C18_DegradedMode ==
    /\ viewResp.op = "recordView" /\ viewResp.path = "degraded"
           => /\ viewResp.status = 200
              /\ viewResp.result =
                     [incremented |-> TRUE, degraded |-> TRUE,
                      views |-> vlogs[viewResp.vlogId]]
              /\ viewResp.changedViews = {viewResp.vlogId}
    /\ \A a \in answers \ Reached :
           a.incremented /\ a.delta = 1
    /\ viewResp.op = "recordView" /\ viewResp.status = 500
           => vlogs[viewResp.vlogId] = NoVlog

C18_Witness ==
    /\ viewResp.op = "recordView"
    /\ viewResp.path = "degraded"
    /\ viewResp.status = 200
    /\ ~redisUp
    /\ vlogs[viewResp.vlogId] = 2

\* the last request was a fetch of one vlog or of the list
Fetched == viewResp.op \in {"getVlog", "getVlogs"}

\* C19: a fetch of one vlog or of the list leaves every view counter and
\* every dedup key as it was, and the counter of a vlog changes only through
\* recordView.
C19_OnlyRecordViewCounts ==
    /\ Fetched => viewResp.changedViews = {} /\ viewResp.changedKeys = {}
    /\ \A v \in viewResp.changedViews :
           vlogs[v] # NoVlog => viewResp.op = "recordView"

\* C20: with Redis down, PUT /vlogs/:id/view on a vlog that exists answers
\* 200 with a payload carrying views, incremented: true and degraded: true.
C20_DegradedInPayload ==
    viewResp.op = "recordView" /\ viewResp.path = "degraded"
        => /\ viewResp.status = 200
           /\ viewResp.body.views = viewResp.result.views
           /\ viewResp.body.incremented
           /\ "degraded" \in DOMAIN viewResp.body
           /\ viewResp.body.degraded

\* the recordView calls received in this step
Arrived == {c \in BagToSet(calls') \ BagToSet(calls) : viewReceived' # viewReceived}

\* C21: dedup is per (contentId, viewerId) pair.  A recordView creates or
\* removes no dedup key but its own pair's, takes the new-view path exactly
\* when its own pair's key is absent whatever other keys exist, and changes
\* the counter of no vlog but the one viewed.
C21_PerPairDedup ==
    [][/\ \A c \in Arrived :
           /\ ChangedKeys(redisData, redisData')
                  \subseteq {<<"view", c.vlogId, c.viewerId>>}
           /\ redisUp =>
                  (c.pc = "inc" <=>
                      <<"view", c.vlogId, c.viewerId>> \notin DOMAIN redisData)
       /\ viewResp'.op = "recordView"
              => viewResp'.changedViews \subseteq {viewResp'.vlogId}]_vars

\* two viewers' first views of v1 and one first view of v2 all counted
C21_Witness ==
    /\ vlogs = [v \in Contents |-> IF v = "v1" THEN 2 ELSE 1]
    /\ \E a, b, c \in Reached :
           /\ a.vlogId = "v1" /\ a.viewerId = "A"
           /\ b.vlogId = "v1" /\ b.viewerId = "B"
           /\ c.vlogId = "v2"
           /\ a.window = 0 /\ b.window = 0 /\ c.window = 0
           /\ a.delta = 1 /\ b.delta = 1 /\ c.delta = 1
           /\ a.serial < b.serial /\ b.serial < c.serial

(* ------------------------- claims on the refresh request --------------- *)
\* the refresh token a request carries, in its body or else in its cookie
Carried(req) == IF req.body # NoToken THEN req.body ELSE req.cookie

\* C22: POST /auth/refresh takes the refresh token from the body or from the
\* refreshToken cookie: a request that carries, in either place, the token
\* rotate would accept is taken up with that token, so the browser's
\* cookie-only refresh of session restoration goes through.
C22_BodyOrCookie ==
    [][sent'.n # sent.n /\ Accepted(Carried(sent'))
          => \E h \in BagToSet(reqs') :
                h.op = "rotate" /\ h.token = Carried(sent')]_vars

\* C23: a rotate rejected with TokenReuseDetected and a rotate rejected with
\* SessionRevoked give the client the same status and the same message.
C23_SameClientOutcome ==
    resp.op = "rotate" /\ resp.result = "TokenReuseDetected"
        => ClientOutcome(resp.result) = ClientOutcome("SessionRevoked")

\* the last response is that of a rotate call that loaded a session record
\* which was not revoked
RotateChecked == resp.op = "rotate" /\ resp.step # "verify" /\ resp.snap.revokedAt = Null

\* C24: the version-based reuse check comes after the family check and the
\* hash check.  A rotate call whose token fails one of the two returns
\* InvalidToken and writes nothing, whatever the presented and the stored
\* tokenVersion; reuse is only ever reported for a token that passed both.
C24_ReuseCheckLast ==
    RotateChecked =>
        /\ (\/ resp.snap.tokenFamily # resp.token.tokenFamily
            \/ ~BcryptCompare(resp.token, resp.snap.refreshTokenHash))
               => /\ resp.result = "InvalidToken"
                  /\ resp.changed = {}
                  /\ resp.issued = NoToken
        /\ resp.result = "TokenReuseDetected"
               => /\ resp.snap.tokenFamily = resp.token.tokenFamily
                  /\ BcryptCompare(resp.token, resp.snap.refreshTokenHash)

\* a token of an earlier family, its version below the stored one, is
\* turned away at the family check
C24_Witness ==
    /\ RotateChecked
    /\ resp.step = "family"
    /\ resp.snap.tokenVersion > resp.token.tokenVersion
    /\ resp.result = "InvalidToken"
    /\ db[resp.user].session.revokedAt = Null

\* the session of p is revoked
Revoked(p) == db[p].status = "active" /\ db[p].session.revokedAt # Null

\* C25: revokedAt, once set, is cleared by no rotate and no logout.  The
\* step that returns it to null is the save of a login or register, which
\* in the same write installs a tokenFamily no token handed out so far
\* carries; while it is set no token is accepted, and a token of a family
\* in which reuse was detected is never accepted again.
C25_RevokedUntilBeginSession ==
    /\ [][\A p \in Principals :
             Revoked(p) /\ db'[p].status = "active" /\ db'[p].session.revokedAt = Null
                => /\ resp'.op \in {"login", "register"}
                   /\ resp'.user = p
                   /\ resp'.result = "ok"
                   /\ db'[p].session.tokenFamily # db[p].session.tokenFamily
                   /\ \A t \in issued :
                          t.tokenFamily # db'[p].session.tokenFamily]_vars
    /\ [](\A p \in Principals :
             /\ Revoked(p) => ValidTokens(p) = {}
             /\ \A t \in ValidTokens(p) :
                    ~\E b \in burned : b[1] = t.tokenFamily)

\* a login has cleared the revocation a logout or a detected reuse had set,
\* and the tokens handed out before it stay refused
C25_Witness ==
    /\ resp.op = "login"
    /\ resp.result = "ok"
    /\ resp.snap.revokedAt # Null
    /\ ~Revoked(resp.user)
    /\ ValidTokens(resp.user) = {resp.issued}
    /\ \E t \in issued : t.id = resp.user /\ t # resp.issued

(* ------------------- claims on failures of the store ------------------- *)
\* C26: a recordView whose redis.set found the key present never increments
\* the counter, whatever the read of the count does: it returns
\* incremented: false, or it fails with the counter as it was.
C26_DuplicateNeverIncrements ==
    /\ \A a \in answers :
           a.wasSet = "null" => a.delta = 0 /\ ~a.incremented
    /\ viewResp.op = "recordView" /\ viewResp.status = 500
           => viewResp.changedViews = {}

\* C27: a failure of MongoDB during recordView ends the request with an
\* error and is not retried inside recordView: a call sends at most one
\* $inc, a call one of whose MongoDB operations failed returns no result,
\* and degraded: true is returned only by a call whose redis.set failed.
C27_StoreFailureNotRetried ==
    /\ \A a \in answers :
           /\ a.tries <= 1
           /\ a.cause # "store"
           /\ a.degraded => a.wasSet = "error"
    /\ viewResp.op = "recordView" => viewResp.tries <= 1

\* C28: whenever the dedup key of a (vlog, viewer) pair exists and no
\* recordView call of the pair is in flight, some call of the pair has
\* incremented the counter within the key's current window: a call whose
\* increment failed leaves no key behind.
C28_KeyMeansCounted ==
    \A v \in Contents, p \in Principals :
        (ViewKey(v, p) \in DOMAIN redisData /\ Quiet(v, p))
            => \E a \in answers :
                   /\ a.vlogId = v /\ a.viewerId = p
                   /\ a.window = windows[<<v, p>>]
                   /\ a.delta = 1

(* ------------------------ claims on concurrency ------------------------ *)
\* the (viewer, window) pairs the returned calls for one vlog belong to
Counted(v) == {<<a.viewerId, a.window>> : a \in {b \in answers : b.vlogId = v}}

\* C29: no update of the view counter is lost: once the recordView calls
\* of distinct viewers for one vlog have all returned, the cache having
\* answered each of them, the counter is higher than at the start by
\* exactly the number of (viewer, key window) pairs among them, whatever
\* the order of their operations: K viewers whose keys were absent add K.
C29_NoLostUpdates ==
    \A v \in Contents :
        ((\A p \in Principals : Quiet(v, p)) /\ answers = Reached)
            => vlogs[v] = Cardinality(Counted(v))

\* two viewers' calls overlapped, both keys absent at the start, and both
\* incremented: the call that arrived second sent its $inc first, while the
\* first was still suspended
C29_Witness ==
    /\ calls = EmptyBag
    /\ vlogs["v1"] = 2
    /\ \E a, b \in Reached :
           /\ a.vlogId = "v1" /\ b.vlogId = "v1"
           /\ a.viewerId # b.viewerId
           /\ a.window = 0 /\ b.window = 0
           /\ a.delta = 1 /\ b.delta = 1
           /\ a.serial < b.serial /\ b.views = 1 /\ a.views = 2

(* ------------------------- claims on termination ----------------------- *)
\* the recordView call that arrived as number n is waiting for redis.set
Pending(n) == \E c \in BagToSet(calls) : c.serial = n /\ c.pc = "set"

\* the call that arrived as number n has returned
Returned(n) == viewReceived >= n /\ ~\E c \in BagToSet(calls) : c.serial = n

\* C30: recordView never hangs on the cache: with MongoDB answering, a
\* call whose redis.set is pending eventually returns, whether Redis
\* answers, the connection is lost, or Redis stays silent.
C30_NeverHangsOnCache ==
    \A n \in 1..MaxViewRequests : Pending(n) ~> Returned(n)

(* ---------------------- claims on who is a viewer ---------------------- *)
\* C31: a view request of a visitor who is not signed in reaches recordView
\* and is counted under a fallback viewer id (session id, else hashed IP):
\* the request is answered 200 with the result of the service.
C31_VisitorCounted ==
    (viewResp.op = "recordView" /\ viewResp.viewerId = Visitor)
        => viewResp.status = 200 /\ viewResp.result # NoResult

(* --------------------- claims on the version checks -------------------- *)
\* the last response is that of a rotate whose token passed the family
\* and hash checks and carries a tokenVersion above the one it loaded
NewerVersion ==
    /\ RotateChecked
    /\ resp.snap.tokenFamily = resp.token.tokenFamily
    /\ BcryptCompare(resp.token, resp.snap.refreshTokenHash)
    /\ resp.token.tokenVersion > resp.snap.tokenVersion

\* C32: a rotate whose token matches the stored family and hash but
\* carries a tokenVersion greater than the stored one is rejected with
\* InvalidToken: no token is returned, nothing is revoked and no field of
\* the session record is written.
C32_NewerVersionRejected ==
    NewerVersion =>
        /\ resp.result = "InvalidToken"
        /\ resp.step = "version"
        /\ resp.issued = NoToken
        /\ resp.changed = {}

\* a token of the stored family, its version above the stored one, was
\* turned away and the session is still live
C32_Witness ==
    /\ NewerVersion
    /\ resp.result = "InvalidToken"
    /\ db[resp.user].session.revokedAt = Null
    /\ db[resp.user].session.tokenVersion < resp.token.tokenVersion

C38_LoadingAfterRestoration ==
    \A i \in Instances :
        ~page.provider[i].loading
            => /\ page.globalAuthInitialized
               /\ page.provider[i].isAuthenticated = (page.outcome = "authenticated")

(* ----------------- claims on the races of the handlers ----------------- *)
\* C34: however the login, rotate and logout requests of a principal
\* interleave, the stored session record is self-consistent: it is revoked
\* with tokenVersion 0 and empty tokenFamily and refreshTokenHash, or
\* revokedAt is null and refreshTokenHash verifies the refresh token that
\* was handed out with exactly the stored tokenFamily and tokenVersion.
\* (A record register has created and not yet given its first session holds
\* the schema defaults.)
C34_SelfConsistent ==
    \A p \in Principals :
        (db[p].status = "active" /\ db[p].session # DefaultSession) =>
            LET u == db[p].session
            IN  \/ /\ u.revokedAt # Null
                   /\ u.tokenVersion = 0
                   /\ u.tokenFamily = NoFamily
                   /\ u.refreshTokenHash = NoHash
                \/ /\ u.revokedAt = Null
                   /\ \E t \in issued :
                          /\ t.id = p
                          /\ t.tokenFamily = u.tokenFamily
                          /\ t.tokenVersion = u.tokenVersion
                          /\ BcryptCompare(t, u.refreshTokenHash)

\* in this step a refresh handler of p runs from its checks to its response
RotateLanded(p) ==
    /\ \E h \in BagToSet(reqs) :
           h.op = "rotate" /\ h.user = p /\ reqs' = reqs (-) SetToBag({h})
    /\ resp'.op = "rotate"

\* C35: a completed logout is not undone by a rotate that was in flight.
\* When a refresh handler that loaded the record before a revocation was
\* written saves after it, revokedAt stays set; and while revokedAt is set
\* no refresh token of the principal is accepted, the one that handler
\* returned included.
C35_LogoutNotUndone ==
    /\ [][\A p \in Principals :
             Revoked(p) /\ RotateLanded(p) => db'[p].session.revokedAt # Null]_vars
    /\ [](\A p \in Principals :
             Revoked(p) => \A t \in issued : t.id = p => ~Accepted(t))

\* the rotate that loaded the live session saved after the logout: it
\* answered with a new token, its version and hash are stored, and the
\* record is still revoked
C35_Witness ==
    /\ resp.op = "rotate" /\ resp.result = "ok"
    /\ resp.issued # NoToken
    /\ burned = {}
    /\ Revoked(resp.user)
    /\ db[resp.user].session.tokenFamily = NoFamily
    /\ db[resp.user].session.tokenVersion = resp.issued.tokenVersion
    /\ ~Accepted(resp.issued)

\* C36: a completed login is not invalidated by a rotate of the previous
\* session that was in flight.  After a refresh handler that presented a
\* token of an older family and loaded the record before the login's save
\* has saved in its turn, the refresh token the login returned (the stored
\* family, version 1) is still accepted.
C36_LoginSurvivesRotate ==
    (/\ resp.op = "rotate" /\ resp.result = "ok"
     /\ db[resp.user].status = "active"
     /\ db[resp.user].session.revokedAt = Null
     /\ db[resp.user].session.tokenFamily # resp.token.tokenFamily)
    => \E t \in issued :
           /\ t.id = resp.user
           /\ t.tokenFamily = db[resp.user].session.tokenFamily
           /\ t.tokenVersion = 1
           /\ (JwtVerify(t, now) = "ok" => Accepted(t))

(* --------------------- claims on the counter's steps ------------------- *)
\* C37: a recordView call raises the counter by at most 1 and never lowers
\* it, on every path (new view, duplicate, degraded, failure of MongoDB):
\* no step of a call moves the counter by anything but 0 or +1, and the
\* counter of a vlog never exceeds its start (0) by more than the number of
\* recordView calls received; and when a call returns incremented: true,
\* the views it reports is the value its own increment produced.
C37_CounterSteps ==
    /\ \A a \in answers :
           /\ a.delta \in {0, 1}
           /\ a.incremented => a.delta = 1
    /\ \A v \in Contents : vlogs[v] <= viewReceived
    /\ (viewResp.op = "recordView" /\ viewResp.status = 200
           /\ viewResp.result.incremented)
          => /\ viewResp.changedViews = {viewResp.vlogId}
             /\ viewResp.result.views = vlogs[viewResp.vlogId]

(* --------------------- claims on password recovery --------------------- *)
\* C39: a password reset token is single-use: at most one resetPassword
\* call succeeds with a given token, also of two calls that run
\* concurrently, so that after one success every other call with the token
\* fails and leaves the password alone; and a token newly generated by
\* forgotPassword is accepted once.
C39_ResetTokenSingleUse ==
    /\ \A a, b \in recovery.wins : a.token = b.token => a = b
    /\ \A resetToken \in recovery.mailed :
           FindByResetToken(recovery.doc, resetToken, recovery.now)
               /\ recovery.handlers = {}
               => ~recovery.doc.passwordResetUsed

====
